---- MODULE Spec2Model ----
\* PixLab pixel-buffer transform engine (rust-wasm/src/filters/*.rs).
\* Every transform is a pure function from (image_data, width, height, params) to
\* Result<Vec<u8>, String>; a host session calls them one after another.
EXTENDS Integers, Naturals, Sequences, FiniteSets, TLC

VARIABLES
    overflow_checks,  \* build profile: TRUE = arithmetic overflow panics (debug), FALSE = wraps (release)
    usize_bytes,      \* width of usize in bytes: 4 (wasm32) or 8 (native test build)
    image_data,       \* the byte buffer the host holds and passes to the next call
    width,            \* declared width  (u32) the host passes with it
    height,           \* declared height (u32) the host passes with it
    hist,             \* the calls made so far: op, arguments, result
    trapped,          \* TRUE once a call has panicked (the instance is unusable)
    host,             \* the global scope the module runs in: what window() and performance() find
    heap_free         \* the largest block, in bytes, the allocator can hand out

vars == <<overflow_checks, usize_bytes, image_data, width, height, hist, trapped, host, heap_free>>

\* ---------------------------------------------------------------------------
\* Bounds of the model
\* ---------------------------------------------------------------------------
MaxDim == 3        \* small images have width, height in 0..MaxDim
MaxCalls == 4      \* calls per session in the chained specifications
MaxBodyLen == 3    \* request bodies of the metadata service have 0..MaxBodyLen bytes

\* ---------------------------------------------------------------------------
\* Machine integers.  u32 and usize values are kept at full width as
\* little-endian base-256 digit sequences without leading zero digits
\* (<<>> is 0, <<0,0,1>> is 65536, <<255,255,255,255>> is u32::MAX), because the
\* model checker's own integers stop at 2^31 - 1.
\* ---------------------------------------------------------------------------
RECURSIVE Digits(_)
Digits(n) == IF n = 0 THEN <<>> ELSE <<n % 256>> \o Digits(n \div 256)

RECURSIVE ToInt(_)
ToInt(d) == IF d = <<>> THEN 0 ELSE Head(d) + 256 * ToInt(Tail(d))

RECURSIVE Strip(_)
Strip(d) ==
    IF d = <<>> THEN d
    ELSE IF d[Len(d)] = 0 THEN Strip(SubSeq(d, 1, Len(d) - 1))
    ELSE d

RECURSIVE AddC(_, _, _)
AddC(a, b, c) ==
    IF a = <<>> /\ b = <<>> THEN (IF c = 0 THEN <<>> ELSE <<c>>)
    ELSE LET x == IF a = <<>> THEN 0 ELSE Head(a)
             y == IF b = <<>> THEN 0 ELSE Head(b)
             s == x + y + c
         IN  <<s % 256>> \o AddC(IF a = <<>> THEN a ELSE Tail(a),
                                 IF b = <<>> THEN b ELSE Tail(b), s \div 256)

\* a + b, exact
Add(a, b) == AddC(a, b, 0)

RECURSIVE MulDigit(_, _, _)
MulDigit(a, m, c) ==
    IF a = <<>> THEN Digits(c)
    ELSE LET p == Head(a) * m + c
         IN  <<p % 256>> \o MulDigit(Tail(a), m, p \div 256)

RECURSIVE MulRaw(_, _)
MulRaw(a, b) ==
    IF a = <<>> \/ b = <<>> THEN <<>>
    ELSE LET rest == MulRaw(a, Tail(b))
         IN  Add(MulDigit(a, Head(b), 0), IF rest = <<>> THEN rest ELSE <<0>> \o rest)

\* a * b, exact
Mul(a, b) == Strip(MulRaw(a, b))

RECURSIVE Cmp(_, _)
Cmp(a, b) ==
    IF Len(a) # Len(b) THEN (IF Len(a) < Len(b) THEN -1 ELSE 1)
    ELSE IF a = <<>> THEN 0
    ELSE IF a[Len(a)] # b[Len(b)] THEN (IF a[Len(a)] < b[Len(b)] THEN -1 ELSE 1)
    ELSE Cmp(SubSeq(a, 1, Len(a) - 1), SubSeq(b, 1, Len(b) - 1))

Less(a, b) == Cmp(a, b) = -1
Leq(a, b) == Cmp(a, b) # 1

RECURSIVE SubB(_, _, _)
SubB(a, b, borrow) ==
    IF a = <<>> THEN <<>>
    ELSE LET y == IF b = <<>> THEN 0 ELSE Head(b)
             s == Head(a) - y - borrow
         IN  <<(s + 256) % 256>> \o SubB(Tail(a), IF b = <<>> THEN b ELSE Tail(b),
                                         IF s < 0 THEN 1 ELSE 0)

\* a - b for a >= b, exact
Sub(a, b) == Strip(SubB(a, b, 0))

\* 2^(8*bytes)
Pow256(bytes) == [i \in 1..bytes + 1 |-> IF i = bytes + 1 THEN 1 ELSE 0]

\* the value kept by a register of `bytes` bytes: d mod 2^(8*bytes)
Wrap(d, bytes) == Strip(SubSeq(d, 1, IF Len(d) < bytes THEN Len(d) ELSE bytes))

Fits(d, bytes) == Len(d) <= bytes

\* A machine value under computation: v is the register's content, ovf records
\* that some step so far left the register's range.
Reg(d) == [v |-> d, ovf |-> FALSE]

RMul(a, b, bytes) ==
    LET p == Mul(a.v, b.v)
    IN  [v |-> Wrap(p, bytes), ovf |-> a.ovf \/ b.ovf \/ ~Fits(p, bytes)]

RAdd(a, b, bytes) ==
    LET s == Add(a.v, b.v)
    IN  [v |-> Wrap(s, bytes), ovf |-> a.ovf \/ b.ovf \/ ~Fits(s, bytes)]

RSub(a, b, bytes) ==
    IF Leq(b.v, a.v)
    THEN [v |-> Sub(a.v, b.v), ovf |-> a.ovf \/ b.ovf]
    ELSE [v |-> Sub(Add(Pow256(bytes), a.v), b.v), ovf |-> TRUE]

U32Bytes == 4
Four == Reg(<<4>>)
One == Reg(<<1>>)

\* ---------------------------------------------------------------------------
\* Results: Result<Vec<u8>, String>, or a panic out of the call
\* ---------------------------------------------------------------------------
\* isize::MAX for a usize of `bytes` bytes: no allocation is larger
IsizeMax(bytes) == [i \in 1..bytes |-> IF i = bytes THEN 127 ELSE 255]

\* a block of n bytes (the usize value n) cannot be had: n is beyond isize::MAX
\* (capacity overflow) or beyond what the allocator has
alloc_fails(n) == Less(IsizeMax(usize_bytes), n) \/ Less(heap_free, n)

\* The bytes the String of each error message asks the allocator for: format!
\* reserves twice the length of its literal text, which the numbers it writes
\* never outgrow; to_string takes the 23 bytes of "Radius must be positive".
MessageCapacity ==
    [LengthMismatch |-> 84, OutOfBoundsWidth |-> 94, OutOfBoundsHeight |-> 98,
     ZeroDimension |-> 70, InvalidRadius |-> 23]

Ok(data) == [tag |-> "Ok", kind |-> "", data |-> data, info |-> <<>>]
Panic(why) == [tag |-> "Panic", kind |-> why, data |-> <<>>, info |-> <<>>]

\* return Err(format!(..)) / Err(".." .to_string()): the message is allocated
\* first, and the call aborts when the allocator refuses it
Err(kind, info) ==
    IF alloc_fails(Digits(MessageCapacity[kind])) THEN Panic("alloc")
    ELSE [tag |-> "Err", kind |-> kind, data |-> <<>>, info |-> info]

\* vec![0u8; n]
Zeros(n) == [i \in 1..n |-> 0]

\* the buffer of as many bytes as the input has, which every transform allocates
\* for its output or for the copy it hands to the library
buffer_alloc_fails(data) == alloc_fails(Digits(Len(data)))

\* `(width * height * 4) as usize`, computed in u32
expected_len(w, h) == RMul(RMul(Reg(w), Reg(h), U32Bytes), Four, U32Bytes)

\* The length check every dimension-taking transform of the core starts with:
\* "ok", or the result the function returns at once.
validate_input(data, w, h) ==
    LET e == expected_len(w, h)
    IN  IF e.ovf /\ overflow_checks THEN Panic("overflow")
        ELSE IF Digits(Len(data)) # e.v
             THEN Err("LengthMismatch", <<e.v, Digits(Len(data))>>)
             ELSE Ok(<<>>)

\* slice[start..end] is in range for a slice whose length is the usize value len
SliceIn(start, end, len) ==
    /\ ~start.ovf \/ ~overflow_checks
    /\ ~end.ovf \/ ~overflow_checks
    /\ Leq(start.v, end.v)
    /\ Leq(end.v, len)

\* slice[start..end] is in range for a slice of n bytes
SliceOk(start, end, n) == SliceIn(start, end, Digits(n))

\* CopyPixel with the alpha byte left out
CopyPixel_rgb_only(output, dst, data, src) ==
    [i \in 1..Len(output) |->
        IF dst < i /\ i <= dst + 3 THEN data[src + (i - dst)] ELSE output[i]]

\* output[dst..dst+4].copy_from_slice(&image_data[src..src+4])
CopyPixel(output, dst, data, src) ==
    [i \in 1..Len(output) |->
        IF dst < i /\ i <= dst + 4 THEN data[src + (i - dst)] ELSE output[i]]

\* ---------------------------------------------------------------------------
\* Flip and rotate: one pass over the input pixels, each copied to its place
\* ---------------------------------------------------------------------------
\* let src_idx = (y * width + x) * 4;   (usize)
src_idx(x, y, w) ==
    RMul(RAdd(RMul(Reg(Digits(y)), Reg(w), usize_bytes), Reg(Digits(x)), usize_bytes),
         Four, usize_bytes)

\* flip_horizontal_dst mirroring about width instead of width - 1
flip_horizontal_dst_off_by_one(x, y, w, h) ==
    RMul(RAdd(RMul(Reg(Digits(y)), Reg(w), usize_bytes),
              RSub(Reg(w), Reg(Digits(x)), usize_bytes),
              usize_bytes),
         Four, usize_bytes)

\* flip.rs: let dst_idx = (y * width + (width - 1 - x)) * 4;
flip_horizontal_dst(x, y, w, h) ==
    RMul(RAdd(RMul(Reg(Digits(y)), Reg(w), usize_bytes),
              RSub(RSub(Reg(w), One, usize_bytes), Reg(Digits(x)), usize_bytes),
              usize_bytes),
         Four, usize_bytes)

\* flip.rs: let dst_idx = ((height - 1 - y) * width + x) * 4;
flip_vertical_dst(x, y, w, h) ==
    RMul(RAdd(RMul(RSub(RSub(Reg(h), One, usize_bytes), Reg(Digits(y)), usize_bytes),
                   Reg(w), usize_bytes),
              Reg(Digits(x)), usize_bytes),
         Four, usize_bytes)

\* rotate_90_dst addressing the output with the input's width as row stride
rotate_90_dst_input_stride(x, y, w, h) ==
    LET new_x == Reg(Digits(y))
        new_y == RSub(RSub(Reg(w), One, usize_bytes), Reg(Digits(x)), usize_bytes)
    IN  RMul(RAdd(RMul(new_y, Reg(w), usize_bytes), new_x, usize_bytes), Four, usize_bytes)

\* rotate.rs: new_x = y; new_y = width - 1 - x; dst_idx = (new_y * height + new_x) * 4
rotate_90_dst(x, y, w, h) ==
    LET new_x == Reg(Digits(y))
        new_y == RSub(RSub(Reg(w), One, usize_bytes), Reg(Digits(x)), usize_bytes)
    IN  RMul(RAdd(RMul(new_y, Reg(h), usize_bytes), new_x, usize_bytes), Four, usize_bytes)

\* rotate_180_dst that mirrors the columns and keeps the rows
rotate_180_dst_rows_kept(x, y, w, h) ==
    LET new_x == RSub(RSub(Reg(w), One, usize_bytes), Reg(Digits(x)), usize_bytes)
        new_y == Reg(Digits(y))
    IN  RMul(RAdd(RMul(new_y, Reg(w), usize_bytes), new_x, usize_bytes), Four, usize_bytes)

\* rotate.rs: new_x = width - 1 - x; new_y = height - 1 - y; dst_idx = (new_y * width + new_x) * 4
rotate_180_dst(x, y, w, h) ==
    LET new_x == RSub(RSub(Reg(w), One, usize_bytes), Reg(Digits(x)), usize_bytes)
        new_y == RSub(RSub(Reg(h), One, usize_bytes), Reg(Digits(y)), usize_bytes)
    IN  RMul(RAdd(RMul(new_y, Reg(w), usize_bytes), new_x, usize_bytes), Four, usize_bytes)

\* rotate.rs: new_x = height - 1 - y; new_y = x; dst_idx = (new_y * height + new_x) * 4
rotate_270_dst(x, y, w, h) ==
    LET new_x == RSub(RSub(Reg(h), One, usize_bytes), Reg(Digits(y)), usize_bytes)
        new_y == Reg(Digits(x))
    IN  RMul(RAdd(RMul(new_y, Reg(h), usize_bytes), new_x, usize_bytes), Four, usize_bytes)

dst_idx(op, x, y, w, h) ==
    CASE op = "flip_horizontal" -> flip_horizontal_dst(x, y, w, h)
      [] op = "flip_vertical" -> flip_vertical_dst(x, y, w, h)
      [] op = "rotate_90_cw" -> rotate_90_dst(x, y, w, h)
      [] op = "rotate_180" -> rotate_180_dst(x, y, w, h)
      [] op = "rotate_270_cw" -> rotate_270_dst(x, y, w, h)

\* for y in 0..height { for x in 0..width { ... copy_from_slice ... } }
\* from iteration (y, x) on.  A row of width 0 has no iterations, whatever the height.
RECURSIVE pixel_loop(_, _, _, _, _, _, _)
pixel_loop(op, data, w, h, y, x, output) ==
    IF w = <<>> \/ ~Less(Digits(y), h) THEN Ok(output)
    ELSE IF ~Less(Digits(x), w) THEN pixel_loop(op, data, w, h, y + 1, 0, output)
    ELSE LET src == src_idx(x, y, w)
             dst == dst_idx(op, x, y, w, h)
             src_end == RAdd(src, Four, usize_bytes)
             dst_end == RAdd(dst, Four, usize_bytes)
         IN  IF overflow_checks /\ (src_end.ovf \/ dst_end.ovf) THEN Panic("overflow")
             ELSE IF ~SliceOk(dst, dst_end, Len(output)) \/ ~SliceOk(src, src_end, Len(data))
                  THEN Panic("bounds")
                  ELSE pixel_loop(op, data, w, h, y, x + 1,
                                  CopyPixel(output, ToInt(dst.v), data, ToInt(src.v)))

\* The body shared by the five functions: validate, allocate, copy.
transform(op, data, w, h) ==
    LET v == validate_input(data, w, h)
    IN  IF v.tag # "Ok" THEN v
        ELSE IF buffer_alloc_fails(data) THEN Panic("alloc")
        ELSE pixel_loop(op, data, w, h, 0, 0, Zeros(Len(data)))

apply_horizontal(data, w, h) == transform("flip_horizontal", data, w, h)
apply_vertical(data, w, h) == transform("flip_vertical", data, w, h)
rotate_90_cw(data, w, h) == transform("rotate_90_cw", data, w, h)
rotate_180(data, w, h) == transform("rotate_180", data, w, h)
rotate_270_cw(data, w, h) == transform("rotate_270_cw", data, w, h)

\* ---------------------------------------------------------------------------
\* Crop
\* ---------------------------------------------------------------------------
\* The output of crop is kept as its length (a usize value) and the bytes written
\* so far; every byte not written is the 0 of vec![0u8; n].
ZeroVec(n) == [len |-> n, at |-> <<>>]

\* the Vec<u8> as the sequence of its bytes
ToVec(output) ==
    [i \in 1..ToInt(output.len) |-> IF i \in DOMAIN output.at THEN output.at[i] ELSE 0]

\* output[dst..dst+n].copy_from_slice(&image_data[src..src+n])
CopyRow(output, dst, data, src, n) ==
    [output EXCEPT !.at =
        [i \in (DOMAIN output.at) \cup (dst + 1..dst + n) |->
            IF dst < i /\ i <= dst + n THEN data[src + (i - dst)] ELSE output.at[i]]]

\* crop_src_start without the column offset x
crop_src_start_no_x(orig_width, x, y, row) ==
    RMul(RMul(RAdd(Reg(y), Reg(Digits(row)), usize_bytes), Reg(orig_width), usize_bytes),
         Four, usize_bytes)

\* let src_start = ((y + row) * orig_width + x) * 4;
crop_src_start(orig_width, x, y, row) ==
    RMul(RAdd(RMul(RAdd(Reg(y), Reg(Digits(row)), usize_bytes), Reg(orig_width), usize_bytes),
              Reg(x), usize_bytes),
         Four, usize_bytes)

\* a dst_start that forgets the row stride
crop_dst_start_no_stride(crop_width, row) ==
    RMul(Reg(Digits(row)), Four, usize_bytes)

\* let dst_start = row * crop_width * 4;
crop_dst_start(crop_width, row) ==
    RMul(RMul(Reg(Digits(row)), Reg(crop_width), usize_bytes), Four, usize_bytes)

\* for row in 0..crop_height { ... copy_from_slice ... }, from iteration `row` on
RECURSIVE crop_rows(_, _, _, _, _, _, _, _)
crop_rows(data, orig_width, x, y, crop_width, crop_height, row, output) ==
    IF ~Less(Digits(row), crop_height) THEN Ok(ToVec(output))
    ELSE LET r == Reg(Digits(row))
             n == RMul(Reg(crop_width), Four, usize_bytes)
             src_start == crop_src_start(orig_width, x, y, row)
             src_end == RAdd(src_start, n, usize_bytes)
             dst_start == crop_dst_start(crop_width, row)
             dst_end == RAdd(dst_start, n, usize_bytes)
         IN  IF overflow_checks /\ (src_end.ovf \/ dst_end.ovf) THEN Panic("overflow")
             ELSE IF ~SliceIn(dst_start, dst_end, output.len)
                     \/ ~SliceOk(src_start, src_end, Len(data))
                  THEN Panic("bounds")
                  ELSE crop_rows(data, orig_width, x, y, crop_width, crop_height, row + 1,
                                 CopyRow(output, ToInt(dst_start.v), data, ToInt(src_start.v),
                                         ToInt(dst_end.v) - ToInt(dst_start.v)))

\* crop.rs apply
crop_apply(data, orig_width, orig_height, x, y, crop_width, crop_height) ==
    LET v == validate_input(data, orig_width, orig_height)
        right == RAdd(Reg(x), Reg(crop_width), U32Bytes)
        bottom == RAdd(Reg(y), Reg(crop_height), U32Bytes)
        n == RMul(RMul(Reg(crop_width), Reg(crop_height), usize_bytes), Four, usize_bytes)
    IN  IF v.tag # "Ok" THEN v
        ELSE IF right.ovf /\ overflow_checks THEN Panic("overflow")
        ELSE IF Less(orig_width, right.v)
             THEN Err("OutOfBoundsWidth", <<x, crop_width, orig_width>>)
        ELSE IF bottom.ovf /\ overflow_checks THEN Panic("overflow")
        ELSE IF Less(orig_height, bottom.v)
             THEN Err("OutOfBoundsHeight", <<y, crop_height, orig_height>>)
        ELSE IF crop_width = <<>> \/ crop_height = <<>>
             THEN Err("ZeroDimension", <<crop_width, crop_height>>)
        ELSE IF n.ovf /\ overflow_checks THEN Panic("overflow")
        ELSE IF alloc_fails(n.v) THEN Panic("alloc")
        ELSE crop_rows(data, orig_width, x, y, crop_width, crop_height, 0, ZeroVec(n.v))

\* ---------------------------------------------------------------------------
\* Brightness.  An f32 argument is modelled by a rational num/den (den > 0).
\* ---------------------------------------------------------------------------
Rat(num, den) == [num |-> num, den |-> den]

\* the f32 that is no number
NaN == Rat(0, 0)
is_nan(a) == a.den = 0

\* adjustment.clamp(-255.0, 255.0); NaN stays NaN
clamp_adjustment(a) ==
    IF is_nan(a) THEN a
    ELSE IF a.num < -255 * a.den THEN Rat(-255, 1)
    ELSE IF a.num > 255 * a.den THEN Rat(255, 1)
    ELSE a

\* a channel sum cast to u8 modulo 256 instead of clamped
adjust_channel_wrapping(c, a) ==
    IF is_nan(a) THEN 0 ELSE ((c * a.den + a.num) \div a.den) % 256

\* the binary exponent of k in 1..255: 2^e <= k < 2^(e+1)
Exponent(k) == CHOOSE e \in 0..7 : 2^e <= k /\ k < 2^(e + 1)

\* ((c as f32 + adjustment).clamp(0.0, 255.0)) as u8.  The exact sum is c + a = t/den.
\* The f32 sum is the float nearest to it (ties to even); every integer up to 255
\* is a float, so the cast gives the integer above the exact sum when that lies
\* within half an ulp, 1/2^(24-e), of it, and the integer below otherwise.
\* NaN stays NaN through the sum and the clamp and is cast to 0.
adjust_channel(c, a) ==
    IF is_nan(a) THEN 0
    ELSE LET t == c * a.den + a.num
             floor == t \div a.den
             e == IF floor = 0 THEN -1 ELSE Exponent(floor)
         IN  IF t <= 0 THEN 0
             ELSE IF t >= 255 * a.den THEN 255
             ELSE IF t % a.den # 0 /\ (floor + 1) * a.den - t <= a.den \div 2^(24 - e)
                  THEN floor + 1
                  ELSE floor

\* for chunk in image_data.chunks_exact(4) { push r', g', b', a }
brightness_chunks(data, a) ==
    [i \in 1..(4 * (Len(data) \div 4)) |->
        IF i % 4 = 0 THEN data[i] ELSE adjust_channel(data[i], a)]

\* brightness.rs apply
brightness_apply(data, w, h, adjustment) ==
    LET v == validate_input(data, w, h)
    IN  IF v.tag # "Ok" THEN v
        ELSE IF buffer_alloc_fails(data) THEN Panic("alloc")
        ELSE Ok(brightness_chunks(data, clamp_adjustment(adjustment)))

\* ---------------------------------------------------------------------------
\* Grayscale and blur: handed to the external image library
\* ---------------------------------------------------------------------------
\* What the library hands back when it returns: a buffer of the same length
\* (grey = channel mean for grayscale; the blur kernel is not modelled).
lib_grayscale(data) ==
    [i \in 1..Len(data) |->
        IF i % 4 = 0 \/ i > 4 * (Len(data) \div 4) THEN data[i]
        ELSE LET p == 4 * ((i - 1) \div 4)
             IN  (data[p + 1] + data[p + 2] + data[p + 3]) \div 3]

lib_gaussian_blur(data, radius) == data

\* The library either returns or panics inside; which is not the core's to decide.
LibOutcomes == {"returns", "panics"}

\* grayscale.rs apply: PhotonImage::new, photon_grayscale, get_raw_pixels
grayscale_apply(data, w, h, lib) ==
    IF buffer_alloc_fails(data) THEN Panic("alloc")
    ELSE IF lib = "panics" THEN Panic("library")
    ELSE Ok(lib_grayscale(data))

\* the library calls grayscale.rs apply makes, once Vec::from has its copy
grayscale_lib_calls(data, w, h) ==
    IF buffer_alloc_fails(data) THEN <<>>
    ELSE <<[fn |-> "grayscale", len |-> Len(data), radius |-> 0]>>

\* `radius as i32`: towards zero, NaN to 0
radius_as_i32(radius) ==
    IF is_nan(radius) THEN 0
    ELSE IF radius.num >= 0 THEN radius.num \div radius.den
    ELSE -((-radius.num) \div radius.den)

\* `radius <= 0.0`: false of NaN
radius_not_positive(radius) == ~is_nan(radius) /\ radius.num <= 0

\* a radius check that lets zero through
blur_apply_zero_accepted(data, w, h, radius, lib) ==
    IF ~is_nan(radius) /\ radius.num < 0 THEN Err("InvalidRadius", <<>>)
    ELSE IF buffer_alloc_fails(data) THEN Panic("alloc")
    ELSE IF lib = "panics" THEN Panic("library")
    ELSE Ok(data)

\* blur.rs apply: radius check, PhotonImage::new, gaussian_blur, get_raw_pixels
blur_apply(data, w, h, radius, lib) ==
    IF radius_not_positive(radius) THEN Err("InvalidRadius", <<>>)
    ELSE IF buffer_alloc_fails(data) THEN Panic("alloc")
    ELSE IF lib = "panics" THEN Panic("library")
    ELSE Ok(lib_gaussian_blur(data, radius_as_i32(radius)))

\* the library calls blur.rs apply makes, once Vec::from has its copy
blur_lib_calls(data, w, h, radius) ==
    IF radius_not_positive(radius) \/ buffer_alloc_fails(data) THEN <<>>
    ELSE <<[fn |-> "gaussian_blur", len |-> Len(data), radius |-> radius_as_i32(radius)]>>

\* ---------------------------------------------------------------------------
\* Inputs
\* ---------------------------------------------------------------------------
Builds == {[checks |-> c, usize |-> u] : c \in BOOLEAN, u \in {4, 8}}

\* the two builds the repository is made for: the wasm32 release artefact and the
\* native test build
ShippedBuilds == {[checks |-> FALSE, usize |-> 4], [checks |-> TRUE, usize |-> 8]}

\* a buffer of n bytes, all different while n <= 256
Ramp(seed, n) == [i \in 1..n |-> (seed + i - 1) % 256]
Seeds == {0, 250}

Red == <<255, 0, 0, 255>>
Green == <<0, 255, 0, 255>>
Blue == <<0, 0, 255, 255>>
Yellow == <<255, 255, 0, 255>>
White == <<255, 255, 255, 255>>

Image(data, w, h) == [data |-> data, w |-> Digits(w), h |-> Digits(h)]

\* the buffers of the unit tests of flip.rs, rotate.rs and crop.rs
TestImages ==
    { Image(Red \o Blue, 2, 1), Image(Red \o Blue, 1, 2),
      Image(Red \o Green \o Blue \o Yellow, 2, 2),
      Image(Red \o Green \o Blue \o White, 2, 2) }

\* the buffers of the unit tests of brightness.rs, and the pixel (50, 50, 50, 255)
Grey(v) == <<v, v, v, 255>>
BrightnessTestImages ==
    { Image(Grey(50) \o Grey(100) \o Grey(150) \o Grey(200), 2, 2), Image(Grey(50), 1, 1),
      Image(Grey(200), 1, 1), Image(Grey(250), 1, 1), Image(Grey(10), 1, 1) }

\* buffers whose length agrees with the declared dimensions
ValidImages ==
    {Image(Ramp(s, 4 * w * h), w, h) : s \in Seeds, w \in 0..MaxDim, h \in 0..MaxDim}
    \cup TestImages \cup BrightnessTestImages

\* the same with one filling each: what flips and rotations do to a buffer does
\* not depend on the bytes in it
SessionImages ==
    {Image(Ramp(0, 4 * w * h), w, h) : w \in 0..MaxDim, h \in 0..MaxDim} \cup TestImages

\* buffers one byte short or one pixel long for the declared dimensions
MismatchedImages ==
    {Image(Ramp(s, 4 * w * h + 4), w, h) : s \in Seeds, w \in 0..MaxDim, h \in 0..MaxDim}
    \cup {Image(Ramp(s, 4 * w * h - 1), w, h) : s \in Seeds, w \in 1..MaxDim, h \in 1..MaxDim}

\* global scopes: a browser page; a scope whose window has no performance object;
\* a scope without window (worker, edge runtime)
Hosts == {"window", "window_without_performance", "no_window"}
BrowserHost == "window"

\* what the allocator can hand out: one 64 KiB page of wasm memory; 1 TiB of
\* address space that the system commits on use
OnePage == <<0, 0, 1>>
Heaps == {OnePage, <<0, 0, 0, 0, 0, 1>>}

InitHeap(images, builds, hosts, heaps) ==
    /\ \E b \in builds : overflow_checks = b.checks /\ usize_bytes = b.usize
    /\ \E img \in images : image_data = img.data /\ width = img.w /\ height = img.h
    /\ hist = <<>>
    /\ trapped = FALSE
    /\ host \in hosts
    /\ heap_free \in heaps

\* images of a few pixels fit in any heap
InitHost(images, builds, hosts) == InitHeap(images, builds, hosts, {OnePage})

\* the transforms called directly do not look at the global scope
InitWith(images, builds) == InitHost(images, builds, {BrowserHost})

Init == InitWith(ValidImages \cup MismatchedImages, Builds)
InitSession == InitWith(SessionImages, ShippedBuilds)

\* ---------------------------------------------------------------------------
\* Calls
\* ---------------------------------------------------------------------------
CanCall(depth) == ~trapped /\ Len(hist) < depth

\* The host makes the call and, when it returns bytes, keeps them as its image
\* with the dimensions (new_width, new_height) of the output.
Call(op, args, res, lib, new_width, new_height) ==
    /\ hist' = Append(hist, [op |-> op, image_data |-> image_data, width |-> width,
                             height |-> height, args |-> args, result |-> res,
                             lib |-> lib])
    /\ trapped' = (res.tag = "Panic")
    /\ IF res.tag = "Ok"
       THEN image_data' = res.data /\ width' = new_width /\ height' = new_height
       ELSE UNCHANGED <<image_data, width, height>>
    /\ UNCHANGED <<overflow_checks, usize_bytes, host, heap_free>>

FlipHorizontal(depth) ==
    /\ CanCall(depth)
    /\ Call("flip_horizontal", <<>>, apply_horizontal(image_data, width, height), <<>>, width, height)

FlipVertical(depth) ==
    /\ CanCall(depth)
    /\ Call("flip_vertical", <<>>, apply_vertical(image_data, width, height), <<>>, width, height)

Rotate90(depth) ==
    /\ CanCall(depth)
    /\ Call("rotate_90_cw", <<>>, rotate_90_cw(image_data, width, height), <<>>, height, width)

Rotate180(depth) ==
    /\ CanCall(depth)
    /\ Call("rotate_180", <<>>, rotate_180(image_data, width, height), <<>>, width, height)

Rotate270(depth) ==
    /\ CanCall(depth)
    /\ Call("rotate_270_cw", <<>>, rotate_270_cw(image_data, width, height), <<>>, height, width)

CropArgs == {Digits(n) : n \in 0..MaxDim}

Crop(depth, args) ==
    /\ CanCall(depth)
    /\ \E x \in args, y \in args, crop_width \in args, crop_height \in args :
          Call("crop", <<x, y, crop_width, crop_height>>,
               crop_apply(image_data, width, height, x, y, crop_width, crop_height),
               <<>>, crop_width, crop_height)

Adjustments ==
    {Rat(-300, 1), Rat(-100, 1), Rat(-1, 262144), Rat(0, 1), Rat(1, 2), Rat(50, 1), Rat(100, 1),
     Rat(300, 1), NaN}

Brightness(depth) ==
    /\ CanCall(depth)
    /\ \E adjustment \in Adjustments :
          Call("brightness", <<adjustment>>,
               brightness_apply(image_data, width, height, adjustment), <<>>, width, height)

Grayscale(depth) ==
    /\ CanCall(depth)
    /\ \E lib \in LibOutcomes :
          Call("grayscale", <<>>, grayscale_apply(image_data, width, height, lib),
               grayscale_lib_calls(image_data, width, height), width, height)

Radii == {Rat(-3, 2), Rat(-1, 1), Rat(0, 1), Rat(1, 2), Rat(2, 1), NaN}

Blur(depth) ==
    /\ CanCall(depth)
    /\ \E radius \in Radii, lib \in LibOutcomes :
          Call("blur", <<radius>>, blur_apply(image_data, width, height, radius, lib),
               blur_lib_calls(image_data, width, height, radius), width, height)

\* ---------------------------------------------------------------------------
\* The dispatcher (lib.rs): the entry points exported to the host
\* ---------------------------------------------------------------------------
\* window().expect(..).performance().expect(..).now(); the clock reading itself
\* is only logged
performance_now(h) ==
    IF h = "no_window" THEN Panic("should have window")
    ELSE IF h = "window_without_performance" THEN Panic("should have performance")
    ELSE Ok(<<>>)

\* JsValue::from_str(&format!("<prefix>{}", e))
JsError(prefix, e) ==
    [tag |-> "Err", kind |-> "JsValue", data |-> <<>>, info |-> <<prefix, e.kind, e.info>>]

\* .map_err(..)? : an Err leaves the entry point as a JsValue, anything else goes on
map_err(prefix, r) == IF r.tag = "Err" THEN JsError(prefix, r) ELSE r

\* the body shared by the entry points: start, the transform, elapsed, Ok(result)
dispatch(prefix, start, core, finish) ==
    IF start.tag = "Panic" THEN start
    ELSE IF core.tag # "Ok" THEN map_err(prefix, core)
    ELSE IF finish.tag = "Panic" THEN finish
    ELSE Ok(core.data)

Dispatch(depth, op, prefix, args, core, lib, new_width, new_height) ==
    /\ CanCall(depth)
    /\ Call(op, args, dispatch(prefix, performance_now(host), core, performance_now(host)),
            IF performance_now(host).tag = "Panic" THEN <<>> ELSE lib, new_width, new_height)

apply_grayscale(depth) ==
    \E lib \in LibOutcomes :
        Dispatch(depth, "apply_grayscale", "Grayscale error: ", <<>>,
                 grayscale_apply(image_data, width, height, lib),
                 grayscale_lib_calls(image_data, width, height), width, height)

apply_blur(depth) ==
    \E radius \in Radii, lib \in LibOutcomes :
        Dispatch(depth, "apply_blur", "Blur error: ", <<radius>>,
                 blur_apply(image_data, width, height, radius, lib),
                 blur_lib_calls(image_data, width, height, radius), width, height)

apply_brightness(depth) ==
    \E adjustment \in Adjustments :
        Dispatch(depth, "apply_brightness", "Brightness error: ", <<adjustment>>,
                 brightness_apply(image_data, width, height, adjustment), <<>>, width, height)

apply_flip_horizontal(depth) ==
    Dispatch(depth, "apply_flip_horizontal", "Horizontal flip error: ", <<>>,
             apply_horizontal(image_data, width, height), <<>>, width, height)

apply_flip_vertical(depth) ==
    Dispatch(depth, "apply_flip_vertical", "Vertical flip error: ", <<>>,
             apply_vertical(image_data, width, height), <<>>, width, height)

apply_rotate_90_cw(depth) ==
    Dispatch(depth, "apply_rotate_90_cw", "Rotate 90 CW error: ", <<>>,
             rotate_90_cw(image_data, width, height), <<>>, height, width)

apply_rotate_180(depth) ==
    Dispatch(depth, "apply_rotate_180", "Rotate 180 error: ", <<>>,
             rotate_180(image_data, width, height), <<>>, width, height)

apply_rotate_270_cw(depth) ==
    Dispatch(depth, "apply_rotate_270_cw", "Rotate 270 CW error: ", <<>>,
             rotate_270_cw(image_data, width, height), <<>>, height, width)

\* One call of any transform on a fresh image.
Next ==
    \/ FlipHorizontal(1)
    \/ FlipVertical(1)
    \/ Rotate90(1)
    \/ Rotate180(1)
    \/ Rotate270(1)
    \/ Crop(1, CropArgs)
    \/ Brightness(1)
    \/ Grayscale(1)
    \/ Blur(1)

Spec == Init /\ [][Next]_vars

\* A session of rotations, each fed the output of the one before.
NextRotate == Rotate90(MaxCalls) \/ Rotate180(MaxCalls) \/ Rotate270(MaxCalls)
SpecRotate == InitSession /\ [][NextRotate]_vars

\* A session of flips.
NextFlip == FlipHorizontal(MaxCalls) \/ FlipVertical(MaxCalls)
SpecFlip == InitSession /\ [][NextFlip]_vars

\* A crop, and then a crop of what it returned.
CropOfCrop ==
    /\ hist # <<>>
    /\ hist[Len(hist)].op = "crop"
    /\ hist[Len(hist)].result.tag = "Ok"
    /\ Crop(2, CropArgs)

NextCrop == Crop(1, CropArgs) \/ CropOfCrop
SpecCrop == InitSession /\ [][NextCrop]_vars

\* One call of an entry point of the wasm module, in any global scope.
WasmBuilds == {b \in Builds : b.usize = 4}
InitDispatch == InitHost(ValidImages \cup MismatchedImages, WasmBuilds, Hosts)
NextDispatch ==
    \/ apply_grayscale(1)
    \/ apply_blur(1)
    \/ apply_brightness(1)
    \/ apply_flip_horizontal(1)
    \/ apply_flip_vertical(1)
    \/ apply_rotate_90_cw(1)
    \/ apply_rotate_180(1)
    \/ apply_rotate_270_cw(1)
SpecDispatch == InitDispatch /\ [][NextDispatch]_vars

\* ---------------------------------------------------------------------------
\* The image-metadata service (wasmcloud-services/image-metadata): one HTTP
\* handler; the request body is the buffer held in image_data
\* ---------------------------------------------------------------------------
None == <<>>
Some(v) == <<v>>

\* bytes that make or break the signatures below
BodyBytes == {0, 66, 77, 216, 255}
Bodies == UNION {[1..n -> BodyBytes] : n \in 0..MaxBodyLen}

StartsWith(body, magic) == Len(body) >= Len(magic) /\ SubSeq(body, 1, Len(magic)) = magic

\* reader.format() after with_guessed_format: the decoding library knows a file
\* by its leading bytes (FF D8 FF: Jpeg, "BM": Bmp)
guess_format(body) ==
    IF StartsWith(body, <<255, 216, 255>>) THEN Some("Jpeg")
    ELSE IF StartsWith(body, <<66, 77>>) THEN Some("Bmp")
    ELSE None

\* format!("{:?}", f).to_lowercase()
to_lowercase(f) == CASE f = "Jpeg" -> "jpeg" [] f = "Bmp" -> "bmp"

\* what the surroundings hand the handler: the read of the body, the reader's
\* probe of it, and what the decoder makes of a body whose format it knows
ReadOutcomes == {"ok", "io_error"}
GuessOutcomes == {"ok", "io_error"}
DecodeOutcomes ==
    {None} \cup {Some(<<Digits(w), Digits(h)>>) : w \in 1..MaxDim, h \in 1..MaxDim}
Methods == {"GET", "POST"}
Paths == {"/"}

\* reader.decode(): without a format there is nothing to decode with
decode(format, decoded) == IF format = None THEN None ELSE decoded

\* an analysis that forgets the guessed format when the decoder fails
analyse_format_dropped(body, guess, decoded) ==
    IF body = <<>> THEN <<"none", None, None>>
    ELSE IF guess # "ok" \/ decode(guess_format(body), decoded) = None
         THEN <<"unknown", None, None>>
         ELSE <<to_lowercase(guess_format(body)[1]),
                Some(decode(guess_format(body), decoded)[1][1]),
                Some(decode(guess_format(body), decoded)[1][2])>>

\* let (format, width, height) = if size_bytes > 0 { .. } else { .. };
analyse(body, guess, decoded) ==
    IF Len(body) > 0
    THEN IF guess = "ok"
         THEN LET format == guess_format(body)
                  format_str == IF format = None THEN "unknown" ELSE to_lowercase(format[1])
                  img == decode(format, decoded)
              IN  IF img # None
                  THEN <<format_str, Some(img[1][1]), Some(img[1][2])>>
                  ELSE <<format_str, None, None>>
         ELSE <<"unknown", None, None>>
    ELSE <<"none", None, None>>

\* http::Response::new(body) with the content-type header: status 200
Response(json) ==
    [tag |-> "Response", kind |-> "application/json", data |-> <<>>,
     info |-> [status |-> 200, body |-> json]]

\* Component::handle
handle(body, method, path, read, guess, decoded) ==
    IF read # "ok" THEN Response([error |-> "Failed to read body"])
    ELSE LET size_bytes == Len(body)
             a == analyse(body, guess, decoded)
         IN  Response([size_bytes |-> size_bytes, format |-> a[1], width |-> a[2],
                       height |-> a[3], message |-> <<size_bytes, method, path>>])

Handle(depth) ==
    /\ CanCall(depth)
    /\ \E method \in Methods, path \in Paths, read \in ReadOutcomes, guess \in GuessOutcomes,
          decoded \in DecodeOutcomes :
          Call("handle", <<method, path, read, guess, decoded>>,
               handle(image_data, method, path, read, guess, decoded), <<>>, width, height)

\* One request to the metadata service.
InitMetadata ==
    InitHost({[data |-> b, w |-> <<>>, h |-> <<>>] : b \in Bodies}, WasmBuilds, {"no_window"})
NextMetadata == Handle(1)
SpecMetadata == InitMetadata /\ [][NextMetadata]_vars

\* One call with dimensions and rectangles from the whole u32 range.
U32Max == <<255, 255, 255, 255>>
WideDims == {<<>>, <<1>>, <<2>>, <<0, 0, 1>>, <<1, 0, 0, 64>>, U32Max}
WideArgs == {<<>>, <<1>>, <<2>>, U32Max}
WideImages ==
    {[data |-> Ramp(0, n), w |-> w, h |-> h] : n \in {0, 4, 8, 16}, w \in WideDims, h \in WideDims}

InitWide == InitHeap(WideImages, Builds, {BrowserHost}, Heaps)
NextWide ==
    \/ FlipHorizontal(1)
    \/ FlipVertical(1)
    \/ Rotate90(1)
    \/ Rotate180(1)
    \/ Rotate270(1)
    \/ Crop(1, WideArgs)
    \/ Brightness(1)
SpecWide == InitWide /\ [][NextWide]_vars

\* ---------------------------------------------------------------------------
\* Properties
\* ---------------------------------------------------------------------------
\* Every call is the latest call of some reachable state, so a property of the
\* latest call (or latest few), held in all reachable states, holds of every call.
Latest == IF hist = <<>> THEN {} ELSE {Len(hist)}

\* width * height * 4 as a mathematical product
TrueLen(c) == Mul(Mul(c.width, c.height), <<4>>)

\* the buffer's length agrees with the declared dimensions
ValidCall(c) == TrueLen(c) = Digits(Len(c.image_data))

\* the 4 bytes of pixel (x, y) of a buffer w pixels wide
PixelAt(data, w, x, y) == SubSeq(data, 4 * (y * w + x) + 1, 4 * (y * w + x) + 4)

DimensionOps ==
    {"flip_horizontal", "flip_vertical", "rotate_90_cw", "rotate_180", "rotate_270_cw",
     "crop", "brightness", "grayscale", "blur"}

CoreOps ==
    {"flip_horizontal", "flip_vertical", "rotate_90_cw", "rotate_180", "rotate_270_cw",
     "crop", "brightness"}

\* C1: every operation that declares dimensions, grayscale and blur included,
\* answers a buffer whose length is not width*height*4 with
\* LengthMismatch(expected = width*height*4, actual = length), and does so before
\* any call into the external library.
C1_LengthMismatchForEveryOperation ==
    \A i \in Latest :
        LET c == hist[i]
        IN  (c.op \in DimensionOps /\ ~ValidCall(c)) =>
                /\ c.result = Err("LengthMismatch", <<TrueLen(c), Digits(Len(c.image_data))>>)
                /\ c.lib = <<>>

\* C2: for all u32 width and height, products beyond 32 bits included, flip,
\* rotate, crop and brightness answer a buffer whose length differs from the true
\* width*height*4 with the validation error, and never panic.
C2_TrueProductValidated ==
    \A i \in Latest :
        LET c == hist[i]
        IN  (c.op \in CoreOps /\ ~ValidCall(c)) =>
                /\ c.result.tag = "Err"
                /\ c.result.kind = "LengthMismatch"

\* the rectangle lies inside the image (true integer sums) and is not empty
RectInside(c) ==
    /\ Leq(Add(c.args[1], c.args[3]), c.width)
    /\ Leq(Add(c.args[2], c.args[4]), c.height)
    /\ c.args[3] # <<>>
    /\ c.args[4] # <<>>

\* C3: on a length-valid buffer crop succeeds only for a rectangle with
\* x + crop_width <= orig_width and y + crop_height <= orig_height as true sums and
\* non-zero sides; any other rectangle gets OutOfBoundsWidth, OutOfBoundsHeight or
\* ZeroDimension.
C3_CropRectangleChecked ==
    \A i \in Latest :
        LET c == hist[i]
        IN  (c.op = "crop" /\ ValidCall(c) /\ ~RectInside(c)) =>
                /\ c.result.tag = "Err"
                /\ c.result.kind \in {"OutOfBoundsWidth", "OutOfBoundsHeight", "ZeroDimension"}

\* the preconditions of crop a call violates, in the order of the checks
CropViolations(c) ==
    (IF ~ValidCall(c) THEN <<"LengthMismatch">> ELSE <<>>)
    \o (IF ~Leq(Add(c.args[1], c.args[3]), c.width) THEN <<"OutOfBoundsWidth">> ELSE <<>>)
    \o (IF ~Leq(Add(c.args[2], c.args[4]), c.height) THEN <<"OutOfBoundsHeight">> ELSE <<>>)
    \o (IF c.args[3] = <<>> \/ c.args[4] = <<>> THEN <<"ZeroDimension">> ELSE <<>>)

\* C4: a crop call that violates several preconditions reports the first of
\* LengthMismatch, OutOfBoundsWidth, OutOfBoundsHeight, ZeroDimension that it violates.
C4_CropFirstErrorInOrder ==
    \A i \in Latest :
        LET c == hist[i]
        IN  (c.op = "crop" /\ Len(CropViolations(c)) >= 2) =>
                /\ c.result.tag = "Err"
                /\ c.result.kind = CropViolations(c)[1]

\* C5: on a valid w x h buffer rotate_90_cw puts input pixel (x, y), unmodified, at
\* output pixel (y, w - 1 - x) and rotate_270_cw puts it at (h - 1 - y, x), both
\* against the swapped width h; the destinations are all different, so every
\* output pixel is written once; the 2x1 buffer [p0, p1] becomes [p1, p0].
C5_RotateQuarterMapping ==
    \A i \in Latest :
        LET c == hist[i]
            w == ToInt(c.width)
            h == ToInt(c.height)
            out == c.result.data
        IN  /\ (c.op = "rotate_90_cw" /\ ValidCall(c)) =>
                /\ c.result.tag = "Ok"
                /\ Len(out) = Len(c.image_data)
                /\ \A x \in 0..w - 1, y \in 0..h - 1 :
                       PixelAt(out, h, y, w - 1 - x) = PixelAt(c.image_data, w, x, y)
                /\ Cardinality({rotate_90_dst(x, y, c.width, c.height).v :
                                    x \in 0..w - 1, y \in 0..h - 1}) = w * h
                /\ (w = 2 /\ h = 1) =>
                       out = PixelAt(c.image_data, 2, 1, 0) \o PixelAt(c.image_data, 2, 0, 0)
            /\ (c.op = "rotate_270_cw" /\ ValidCall(c)) =>
                /\ c.result.tag = "Ok"
                /\ Len(out) = Len(c.image_data)
                /\ \A x \in 0..w - 1, y \in 0..h - 1 :
                       PixelAt(out, h, h - 1 - y, x) = PixelAt(c.image_data, w, x, y)
                /\ Cardinality({rotate_270_dst(x, y, c.width, c.height).v :
                                    x \in 0..w - 1, y \in 0..h - 1}) = w * h

\* a session that turned a 3x1 row by rotate_90_cw and the 1x3 column it gave by
\* rotate_270_cw
C5_Witness ==
    /\ Len(hist) >= 2
    /\ hist[1].op = "rotate_90_cw" /\ hist[1].width = <<3>> /\ hist[1].height = <<1>>
    /\ hist[1].result.tag = "Ok"
    /\ hist[2].op = "rotate_270_cw" /\ hist[2].width = <<1>> /\ hist[2].height = <<3>>
    /\ hist[2].result.tag = "Ok"

RGBY == Red \o Green \o Blue \o Yellow

\* C6: on a square n x n buffer rotate_90_cw is a clockwise quarter turn: output
\* pixel (n - 1 - y, x) is input pixel (x, y); [R, G, B, Y] becomes [B, R, Y, G], and
\* rotate_180 of it is [Y, B, G, R].
C6_Rotate90IsClockwise ==
    \A i \in Latest :
        LET c == hist[i]
            n == ToInt(c.width)
            out == c.result.data
        IN  /\ (c.op = "rotate_90_cw" /\ ValidCall(c) /\ c.width = c.height) =>
                /\ c.result.tag = "Ok"
                /\ \A x \in 0..n - 1, y \in 0..n - 1 :
                       PixelAt(out, n, n - 1 - y, x) = PixelAt(c.image_data, n, x, y)
                /\ c.image_data = RGBY => out = Blue \o Red \o Yellow \o Green
            /\ (c.op = "rotate_180" /\ c.width = <<2>> /\ c.height = <<2>>
                    /\ c.image_data = RGBY) =>
                out = Yellow \o Blue \o Green \o Red

\* C7: with each call given the swapped dimensions of the output before it, four
\* rotate_90_cw calls on a valid buffer give the buffer back; rotate_180 equals two
\* rotate_90_cw calls and rotate_270_cw equals three.
C7_RotationGroup ==
    /\ \A i \in {Len(hist) - 3} :
           (/\ i >= 1
            /\ ValidCall(hist[i])
            /\ \A k \in i..i + 3 : hist[k].op = "rotate_90_cw") =>
               /\ \A k \in i..i + 3 : hist[k].result.tag = "Ok"
               /\ \A k \in i + 1..i + 3 :
                      /\ hist[k].image_data = hist[k - 1].result.data
                      /\ hist[k].width = hist[k - 1].height
                      /\ hist[k].height = hist[k - 1].width
               /\ hist[i + 3].result.data = hist[i].image_data
    /\ \A i \in Latest :
           LET c == hist[i]
               r1 == rotate_90_cw(c.image_data, c.width, c.height)
               r2 == rotate_90_cw(r1.data, c.height, c.width)
               r3 == rotate_90_cw(r2.data, c.width, c.height)
           IN  /\ (c.op = "rotate_180" /\ ValidCall(c)) =>
                      c.result.tag = "Ok" /\ r1.tag = "Ok" /\ c.result = r2
               /\ (c.op = "rotate_270_cw" /\ ValidCall(c)) =>
                      c.result.tag = "Ok" /\ r1.tag = "Ok" /\ r2.tag = "Ok" /\ c.result = r3

\* four rotate_90_cw calls in a row, starting from a 3x2 image
C7_Witness ==
    /\ Len(hist) = 4
    /\ \A k \in 1..4 : hist[k].op = "rotate_90_cw" /\ hist[k].result.tag = "Ok"
    /\ hist[1].width = <<3>> /\ hist[1].height = <<2>>

\* C8: on a valid w x h buffer flip-horizontal returns a buffer of the same length
\* whose pixel (x, y) is input pixel (w - 1 - x, y), flip-vertical one whose pixel
\* (x, y) is input pixel (x, h - 1 - y); [255,0,0,255, 0,0,255,255] as 2x1 flipped
\* horizontally is [0,0,255,255, 255,0,0,255].
C8_FlipMapping ==
    \A i \in Latest :
        LET c == hist[i]
            w == ToInt(c.width)
            h == ToInt(c.height)
            out == c.result.data
        IN  /\ (c.op = "flip_horizontal" /\ ValidCall(c)) =>
                /\ c.result.tag = "Ok"
                /\ Len(out) = Len(c.image_data)
                /\ \A x \in 0..w - 1, y \in 0..h - 1 :
                       PixelAt(out, w, x, y) = PixelAt(c.image_data, w, w - 1 - x, y)
                /\ (c.image_data = Red \o Blue /\ w = 2) => out = Blue \o Red
            /\ (c.op = "flip_vertical" /\ ValidCall(c)) =>
                /\ c.result.tag = "Ok"
                /\ Len(out) = Len(c.image_data)
                /\ \A x \in 0..w - 1, y \in 0..h - 1 :
                       PixelAt(out, w, x, y) = PixelAt(c.image_data, w, x, h - 1 - y)

\* a session that flipped a 3x2 image horizontally, then vertically
C8_Witness ==
    /\ Len(hist) >= 2
    /\ hist[1].op = "flip_horizontal" /\ hist[1].width = <<3>> /\ hist[1].height = <<2>>
    /\ hist[1].result.tag = "Ok"
    /\ hist[2].op = "flip_vertical" /\ hist[2].result.tag = "Ok"

\* C9: flip-horizontal applied twice with the same dimensions to a valid buffer
\* returns the buffer, and so does flip-vertical applied twice.
C9_FlipInvolution ==
    \A i \in {Len(hist) - 1} :
        (/\ i >= 1
         /\ ValidCall(hist[i])
         /\ hist[i].op \in {"flip_horizontal", "flip_vertical"}
         /\ hist[i + 1].op = hist[i].op) =>
            /\ hist[i].result.tag = "Ok"
            /\ hist[i + 1].result.tag = "Ok"
            /\ hist[i + 1].image_data = hist[i].result.data
            /\ hist[i + 1].width = hist[i].width /\ hist[i + 1].height = hist[i].height
            /\ hist[i + 1].result.data = hist[i].image_data

\* a 2x3 image flipped horizontally twice, then vertically twice
C9_Witness ==
    /\ Len(hist) = 4
    /\ hist[1].width = <<2>> /\ hist[1].height = <<3>>
    /\ hist[1].op = "flip_horizontal" /\ hist[2].op = "flip_horizontal"
    /\ hist[3].op = "flip_vertical" /\ hist[4].op = "flip_vertical"
    /\ hist[4].result.tag = "Ok"

\* C10: on a valid buffer, a rectangle inside the image with non-zero sides is
\* cropped to exactly cw*ch*4 bytes whose pixel (c, r) is input pixel (x + c, y + r);
\* the full rectangle (0, 0, w, h) returns the input.
C10_CropMapping ==
    \A i \in Latest :
        LET c == hist[i]
            w == ToInt(c.width)
            x == ToInt(c.args[1])
            y == ToInt(c.args[2])
            cw == ToInt(c.args[3])
            ch == ToInt(c.args[4])
            out == c.result.data
        IN  (c.op = "crop" /\ ValidCall(c) /\ RectInside(c)) =>
                /\ c.result.tag = "Ok"
                /\ Len(out) = cw * ch * 4
                /\ \A col \in 0..cw - 1, r \in 0..ch - 1 :
                       PixelAt(out, cw, col, r) = PixelAt(c.image_data, w, x + col, y + r)
                /\ (x = 0 /\ y = 0 /\ c.args[3] = c.width /\ c.args[4] = c.height) =>
                       out = c.image_data

\* the 2x2 block at (1, 1) cropped out of a 3x3 image
C10_Witness ==
    /\ Len(hist) = 1
    /\ hist[1].op = "crop" /\ hist[1].width = <<3>> /\ hist[1].height = <<3>>
    /\ hist[1].args = <<<<1>>, <<1>>, <<2>>, <<2>>>>
    /\ hist[1].result.tag = "Ok"
    /\ Len(hist[1].result.data) = 16

\* C11: on a valid buffer, cropping (x1, y1, w1, h1) inside the image and then
\* (x2, y2, w2, h2) inside the w1 x h1 result gives the bytes of the single crop
\* (x1 + x2, y1 + y2, w2, h2) of the original; all three calls succeed.
C11_CropComposes ==
    \A i \in {Len(hist) - 1} :
        (/\ i >= 1
         /\ hist[i].op = "crop" /\ hist[i + 1].op = "crop"
         /\ ValidCall(hist[i]) /\ RectInside(hist[i])
         /\ hist[i + 1].width = hist[i].args[3] /\ hist[i + 1].height = hist[i].args[4]
         /\ RectInside(hist[i + 1])) =>
            LET b == hist[i]
                c == hist[i + 1]
                single == crop_apply(b.image_data, b.width, b.height,
                                     Add(b.args[1], c.args[1]), Add(b.args[2], c.args[2]),
                                     c.args[3], c.args[4])
            IN  /\ b.result.tag = "Ok"
                /\ c.image_data = b.result.data
                /\ c.result.tag = "Ok"
                /\ single.tag = "Ok"
                /\ c.result.data = single.data

\* the rows 1..2 of a 3x3 image, then the right two pixels of the second of them:
\* the single crop (1, 2, 2, 1)
C11_Witness ==
    /\ Len(hist) = 2
    /\ hist[1].op = "crop" /\ hist[1].width = <<3>> /\ hist[1].height = <<3>>
    /\ hist[1].args = <<<<>>, <<1>>, <<3>>, <<2>>>>
    /\ hist[2].op = "crop" /\ hist[2].args = <<<<1>>, <<1>>, <<2>>, <<1>>>>
    /\ hist[2].result.tag = "Ok"
    /\ hist[2].result.data = PixelAt(hist[1].image_data, 3, 1, 2) \o PixelAt(hist[1].image_data, 3, 2, 2)

\* the value v brought into lo..hi
Clamp(v, lo, hi) == IF v < lo THEN lo ELSE IF v > hi THEN hi ELSE v

\* C12: on a valid buffer, for every integer adjustment, those beyond +/-255
\* included, brightness returns a buffer of the same length whose R, G, B bytes are
\* clamp(channel + clamp(adjustment, -255, 255), 0, 255) and whose alpha bytes are
\* the input's; a positive adjustment never decreases a channel, a negative one
\* never increases it, every output byte is in 0..255; +50 on (50,50,50,255) gives
\* (100,100,100,255) and +100 on (250,250,250,255) gives (255,255,255,255).
C12_BrightnessClamped ==
    \A i \in Latest :
        LET c == hist[i]
            adj == c.args[1].num
            out == c.result.data
        IN  (c.op = "brightness" /\ ValidCall(c) /\ c.args[1].den = 1) =>
                /\ c.result.tag = "Ok"
                /\ Len(out) = Len(c.image_data)
                /\ \A k \in 1..Len(out) :
                       /\ out[k] \in 0..255
                       /\ k % 4 = 0 => out[k] = c.image_data[k]
                       /\ k % 4 # 0 =>
                              /\ out[k] = Clamp(c.image_data[k] + Clamp(adj, -255, 255), 0, 255)
                              /\ adj > 0 => out[k] >= c.image_data[k]
                              /\ adj < 0 => out[k] <= c.image_data[k]
                /\ (c.image_data = Grey(50) /\ adj = 50) => out = Grey(100)
                /\ (c.image_data = Grey(250) /\ adj = 100) => out = Grey(255)

\* the pixel (250, 250, 250, 255) brightened by 300, which is taken as 255
C12_Witness ==
    /\ Len(hist) = 1
    /\ hist[1].op = "brightness" /\ hist[1].image_data = Grey(250)
    /\ hist[1].args = <<Rat(300, 1)>>
    /\ hist[1].result = Ok(Grey(255))

\* C13: a blur call with a zero or negative radius returns InvalidRadius and makes
\* no call into the external library: the radius check comes before the library
\* image is built and before gaussian_blur.
C13_BlurRadiusRejectedLocally ==
    \A i \in Latest :
        LET c == hist[i]
        IN  (c.op = "blur" /\ ~is_nan(c.args[1]) /\ c.args[1].num <= 0) =>
                /\ c.result = Err("InvalidRadius", <<>>)
                /\ c.lib = <<>>

\* blur with radius 0 on a 2x2 image
C13_Witness ==
    /\ Len(hist) = 1
    /\ hist[1].op = "blur" /\ hist[1].args = <<Rat(0, 1)>>
    /\ hist[1].width = <<2>> /\ hist[1].height = <<2>> /\ Len(hist[1].image_data) = 16
    /\ hist[1].result.tag = "Err" /\ hist[1].result.kind = "InvalidRadius"
    /\ hist[1].lib = <<>>

\* the message prefix of each entry point
ErrorPrefix ==
    [apply_grayscale |-> "Grayscale error: ", apply_blur |-> "Blur error: ",
     apply_brightness |-> "Brightness error: ",
     apply_flip_horizontal |-> "Horizontal flip error: ",
     apply_flip_vertical |-> "Vertical flip error: ",
     apply_rotate_90_cw |-> "Rotate 90 CW error: ", apply_rotate_180 |-> "Rotate 180 error: ",
     apply_rotate_270_cw |-> "Rotate 270 CW error: "]

\* what the transform behind an entry point can answer to the call's arguments
TransformOutcomes(c) ==
    CASE c.op = "apply_grayscale" ->
             {grayscale_apply(c.image_data, c.width, c.height, l) : l \in LibOutcomes}
      [] c.op = "apply_blur" ->
             {blur_apply(c.image_data, c.width, c.height, c.args[1], l) : l \in LibOutcomes}
      [] c.op = "apply_brightness" ->
             {brightness_apply(c.image_data, c.width, c.height, c.args[1])}
      [] c.op = "apply_flip_horizontal" -> {apply_horizontal(c.image_data, c.width, c.height)}
      [] c.op = "apply_flip_vertical" -> {apply_vertical(c.image_data, c.width, c.height)}
      [] c.op = "apply_rotate_90_cw" -> {rotate_90_cw(c.image_data, c.width, c.height)}
      [] c.op = "apply_rotate_180" -> {rotate_180(c.image_data, c.width, c.height)}
      [] c.op = "apply_rotate_270_cw" -> {rotate_270_cw(c.image_data, c.width, c.height)}

\* C14: in every global scope, one without window or performance object included,
\* every entry point of the dispatcher ends with what its transform answered: the
\* transform's bytes, or a tagged error carrying the transform's message under the
\* entry point's prefix.  The timing around the transform neither changes that
\* result nor aborts the call.
C14_DispatcherReturnsTransformResult ==
    \A i \in Latest :
        LET c == hist[i]
        IN  c.op \in DOMAIN ErrorPrefix =>
                \E r \in TransformOutcomes(c) :
                    /\ c.result.tag = r.tag
                    /\ r.tag = "Ok" => c.result.data = r.data
                    /\ r.tag = "Err" =>
                           c.result.info = <<ErrorPrefix[c.op], r.kind, r.info>>
                    /\ r.tag = "Panic" => c.result.kind = r.kind

\* the request was read, its body is not empty and no image came out of it
Undecodable(c) ==
    /\ c.op = "handle"
    /\ c.image_data # <<>>
    /\ c.args[3] = "ok"
    /\ \/ c.args[4] # "ok"
       \/ guess_format(c.image_data) = None
       \/ c.args[5] = None

\* a format was guessed from the leading bytes of the body
FormatGuessed(c) == c.args[4] = "ok" /\ guess_format(c.image_data) # None

\* C15: for every non-empty body that cannot be decoded, whether or not a format
\* was guessed from its leading bytes, the metadata service answers with status 200
\* and a JSON whose format is "unknown" and whose width and height are null.
C15_UndecodableIsUnknown ==
    \A i \in Latest :
        LET c == hist[i]
        IN  Undecodable(c) =>
                /\ c.result.tag = "Response"
                /\ c.result.info.status = 200
                /\ c.result.info.body.format = "unknown"
                /\ c.result.info.body.width = None
                /\ c.result.info.body.height = None

\* C15 amended: for every non-empty body that cannot be decoded the service
\* answers with status 200 and null width and height; the format is the lowercase
\* name of the guessed format when one was guessed from the leading bytes, and
\* "unknown" only when none was.
C15_UndecodableKeepsGuessedFormat ==
    \A i \in Latest :
        LET c == hist[i]
        IN  Undecodable(c) =>
                /\ c.result.tag = "Response"
                /\ c.result.info.status = 200
                /\ c.result.info.body.width = None
                /\ c.result.info.body.height = None
                /\ c.result.info.body.size_bytes = Len(c.image_data)
                /\ (c.result.info.body.format = "unknown") <=> ~FormatGuessed(c)
                /\ StartsWith(c.image_data, <<66, 77>>) /\ c.args[4] = "ok" =>
                       c.result.info.body.format = "bmp"
                /\ StartsWith(c.image_data, <<255, 216, 255>>) /\ c.args[4] = "ok" =>
                       c.result.info.body.format = "jpeg"

\* a three-byte body that starts like a BMP file and does not decode
C15_Witness ==
    /\ Len(hist) = 1
    /\ hist[1].op = "handle" /\ hist[1].image_data = <<66, 77, 0>>
    /\ hist[1].args[3] = "ok" /\ hist[1].args[4] = "ok" /\ hist[1].args[5] = None
    /\ hist[1].result.info.body.format = "bmp"
    /\ hist[1].result.info.body.width = None

\* C16: whenever blur calls the library's Gaussian blur, the integer radius it
\* passes is at least 1: every radius the local check accepts, a fraction between
\* 0 and 1 included, is converted to a positive integer, never to 0.
C16_BlurRadiusAtLeastOne ==
    \A i \in Latest :
        LET c == hist[i]
        IN  c.op = "blur" =>
                /\ c.args[1].num > 0 => c.lib # <<>>
                /\ \A k \in 1..Len(c.lib) :
                       c.lib[k].fn = "gaussian_blur" => c.lib[k].radius >= 1

====
